---- MODULE Spec2Model ----
(***************************************************************************)
(* Model of the socket/packet-buffer layer (tcpSocket, TCPPacket) and of   *)
(* the DHCP server (DHCPServer.HandleUDP, parseDHCP) of the seqs stack.    *)
(*                                                                         *)
(* Three specifications share the variables:                               *)
(*   Spec      the socket state machine (Open/Close/HandleEth/...)         *)
(*   SpecDHCP  the DHCP lease manager driven by HandleUDP calls            *)
(*   SpecGeom  the header geometry resolver (dataPtrs) on drawn headers    *)
(***************************************************************************)
EXTENDS Integers, Sequences, FiniteSets, TLC

\* ------------------------------------------------------------------ bounds
MaxPort == 2          \* ports are drawn from 0..MaxPort
MaxPackets == 3       \* number of frames the stack delivers to the socket

\* ------------------------------------------------------- program constants
ZeroTime == 0         \* time.Time{}  (Rx.IsZero())
ForcedTime == 1       \* forcedTime sentinel; real receive times are > ForcedTime
NilHandler == "nil"
Handlers == {"h"}     \* non-nil handler values

VARIABLES
    \* tcpSocket
    Port,             \* u.Port
    handler,          \* u.handler
    Rx,               \* u.packets[0].Rx
    pkt,              \* identity of the frame stored in u.packets[0] (0: none yet)
    clock,            \* time source of the receive loop; also numbers the frames
    \* observation of the socket
    hcalls,           \* hcalls[p]: handler invocations that were handed real packet p
    handled,          \* real packets that were handed to the handler
    redelivered,      \* a packet already handed to the handler reached HandleEth's packet branch again
    marked,           \* forceResponse returned true on the open socket since the last HandleEth call
    markedOpen,       \* same, and no Open or Close since
    ret               \* what the last socket operation did and returned

svars == <<Port, handler, Rx, pkt, clock, hcalls, handled, redelivered, marked, markedOpen, ret>>

\* ------------------------------------------------------------- TCPPacket
\* variant: the forced sentinel is not told apart from a real receive time
HasPacket_IgnoresForced(rx) == rx # ZeroTime

\* func (u *TCPPacket) HasPacket() bool
HasPacket(rx) == rx # ForcedTime /\ rx # ZeroTime

\* ------------------------------------------------------------- tcpSocket
\* variant: only a forced trigger counts as pending
IsPendingHandlingOf_ForcedOnly(port, rx) == port # 0 /\ rx = ForcedTime

\* variant: only a real packet counts as pending
IsPendingHandlingOf_RealOnly(port, rx) == port # 0 /\ HasPacket(rx)

\* func (u *tcpSocket) IsPendingHandling() bool
IsPendingHandlingOf(port, rx) == port # 0 /\ rx # ZeroTime

IsPendingHandling == IsPendingHandlingOf(Port, Rx)

\* func (u *tcpSocket) NeedsHandling() bool
NeedsHandling == IsPendingHandling

\* variant: the slot is left as it was after the handler ran
Invalidate_Keeps(rx) == rx

\* packet.Rx = time.Time{} at the end of HandleEth
Invalidate(rx) == ZeroTime

\* variant: the handler is called without asking for a pending segment
CallsHandler_IgnoresSegment(recvErr, segOk) == ~recvErr

\* the condition under which HandleEth calls the handler for a real packet:
\* Recv returned no error and PendingSegment reported ok
CallsHandler(recvErr, segOk) == ~recvErr /\ segOk

\* values a handler may return
HandlerN == {0, 54}
HandlerErr == {"nil", "handler_err"}

NoRet == [op |-> "none", panic |-> FALSE, n |-> 0, err |-> "nil", hcount |-> 0,
          recvCalled |-> FALSE, recvErr |-> FALSE, segOk |-> FALSE, added |-> FALSE,
          prePort |-> 0, preRx |-> ZeroTime, preMarked |-> FALSE, preMarkedOpen |-> FALSE,
          preHandler |-> NilHandler, prePkt |-> 0]

Pre == [NoRet EXCEPT !.prePort = Port, !.preRx = Rx, !.preMarked = marked,
                     !.preMarkedOpen = markedOpen, !.preHandler = handler, !.prePkt = pkt]

\* func (u *tcpSocket) HandleEth(dst []byte) (n int, err error)
HandleEth ==
    \E recvErr \in BOOLEAN, segOk \in BOOLEAN, hn \in HandlerN, herr \in HandlerErr :
        IF handler = NilHandler
        THEN \* panic("nil udp handler on port ...")
             /\ ret' = [Pre EXCEPT !.op = "HandleEth", !.panic = TRUE]
             /\ marked' = FALSE
             /\ markedOpen' = FALSE
             /\ UNCHANGED <<Port, handler, Rx, pkt, clock, hcalls, handled, redelivered>>
        ELSE IF HasPacket(Rx)
        THEN /\ redelivered' = (redelivered \/ pkt \in handled)
             /\ IF recvErr
                THEN \* err = u.tcb.Recv(incoming); return 0, err
                     /\ ret' = [Pre EXCEPT !.op = "HandleEth", !.recvCalled = TRUE,
                                           !.recvErr = TRUE, !.err = "recv_err"]
                     /\ UNCHANGED <<Rx, hcalls, handled>>
                ELSE IF CallsHandler(recvErr, segOk)
                THEN /\ ret' = [Pre EXCEPT !.op = "HandleEth", !.recvCalled = TRUE,
                                           !.segOk = segOk, !.hcount = 1,
                                           !.n = hn, !.err = herr]
                     /\ hcalls' = [hcalls EXCEPT ![pkt] = @ + 1]
                     /\ handled' = handled \cup {pkt}
                     /\ Rx' = Invalidate(Rx)
                ELSE /\ ret' = [Pre EXCEPT !.op = "HandleEth", !.recvCalled = TRUE,
                                           !.segOk = segOk]
                     /\ Rx' = Invalidate(Rx)
                     /\ UNCHANGED <<hcalls, handled>>
             /\ marked' = FALSE
             /\ markedOpen' = FALSE
             /\ UNCHANGED <<Port, handler, pkt, clock>>
        ELSE \* no packet pending: the user has likely flagged a send
             /\ ret' = [Pre EXCEPT !.op = "HandleEth", !.hcount = 1, !.n = hn, !.err = herr]
             /\ Rx' = Invalidate(Rx)
             /\ marked' = FALSE
             /\ markedOpen' = FALSE
             /\ UNCHANGED <<Port, handler, pkt, clock, hcalls, handled, redelivered>>

\* variant: Open leaves the slot as it finds it
OpenRx_Keeps(rx) == rx

\* for i := range u.packets { u.packets[i].Rx = time.Time{} } in Open
OpenRx(rx) == ZeroTime

\* variant: Close leaves the handler set
CloseHandler_Keeps(h) == h

\* u.handler = nil in Close
CloseHandler(h) == NilHandler

\* func (u *tcpSocket) Open(port uint16, h func([]byte, *TCPPacket) (int, error))
Open ==
    \E port \in 0..MaxPort, h \in Handlers \cup {NilHandler} :
        IF port = 0 \/ h = NilHandler
        THEN \* panic("invalid port or nil handler")
             /\ ret' = [Pre EXCEPT !.op = "Open", !.panic = TRUE]
             /\ UNCHANGED <<Port, handler, Rx, pkt, clock, hcalls, handled, redelivered,
                            marked, markedOpen>>
        ELSE /\ handler' = h
             /\ Port' = port
             /\ Rx' = OpenRx(Rx)
             /\ ret' = [Pre EXCEPT !.op = "Open"]
             /\ markedOpen' = FALSE
             /\ UNCHANGED <<pkt, clock, hcalls, handled, redelivered, marked>>

\* func (u *tcpSocket) Close()
Close ==
    /\ handler' = CloseHandler(handler)
    /\ Port' = 0
    /\ ret' = [Pre EXCEPT !.op = "Close"]
    /\ markedOpen' = FALSE
    /\ UNCHANGED <<Rx, pkt, clock, hcalls, handled, redelivered, marked>>

\* func (u *tcpSocket) forceResponse() (added bool)
forceResponse ==
    IF ~IsPendingHandling
    THEN /\ Rx' = ForcedTime
         /\ ret' = [Pre EXCEPT !.op = "forceResponse", !.added = TRUE]
         /\ marked' = (marked \/ Port # 0)
         /\ markedOpen' = (markedOpen \/ Port # 0)
         /\ UNCHANGED <<Port, handler, pkt, clock, hcalls, handled, redelivered>>
    ELSE /\ ret' = [Pre EXCEPT !.op = "forceResponse", !.added = FALSE]
         /\ UNCHANGED <<Port, handler, Rx, pkt, clock, hcalls, handled, redelivered,
                        marked, markedOpen>>

\* The receive loop of the stack: a frame for an open socket is stored in the
\* slot with its receive time unless the socket needs handling (then dropped).
RecvEth ==
    /\ clock < MaxPackets
    /\ Port # 0
    /\ ~NeedsHandling
    /\ clock' = clock + 1
    /\ pkt' = clock + 1
    /\ Rx' = ForcedTime + clock + 1
    /\ ret' = [Pre EXCEPT !.op = "RecvEth"]
    /\ UNCHANGED <<Port, handler, hcalls, handled, redelivered, marked, markedOpen>>


\* =================================================================== DHCP
\* sizes of the eth package used by dhcp_server.go
SizeEthernetHeader == 14
SizeIPv4Header == 20
SizeUDPHeader == 8
SizeTCPHeader == 20
SizeDHCPHeader == 44
sizeSName == 64
sizeFILE == 128
sizeOptions == 312
dhcpOffset == SizeEthernetHeader + SizeIPv4Header + SizeUDPHeader
optionsStart == dhcpOffset + SizeDHCPHeader + sizeSName + sizeFILE
sizeDHCPTotal == SizeDHCPHeader + sizeSName + sizeFILE + sizeOptions
\* first option byte of an incoming payload: SizeDHCPHeader + sizeSName + sizeFILE + 4
parsePtr0 == SizeDHCPHeader + sizeSName + sizeFILE + 4

\* option tags
DHCP_MessageType == 53
DHCP_ParameterRequestList == 55
DHCP_RequestedIPaddress == 50
EndMark == 255

\* dhcpclient.state; None is the zero value of a record that was never stored
dhcpStateNone == 0
dhcpStateWaitOffer == 1

\* netip.Addr: the zero Addr is not an IPv4 address
ZeroAddr == [valid |-> FALSE, ip |-> <<0, 0, 0, 0>>]
AddrFrom4(b) == [valid |-> TRUE, ip |-> b]
IP0 == <<0, 0, 0, 0>>
FallbackIP == <<192, 168, 1, 2>>
ServerIP == <<192, 168, 1, 1>>
OtherServerIP == <<192, 168, 1, 254>>
ClientIP == <<10, 0, 0, 5>>
StaleIP == <<10, 0, 0, 9>>
ServerMAC == <<2, 0, 0, 0, 0, 1>>
BroadcastHW6 == <<255, 255, 255, 255, 255, 255>>
ServerPort == 67
ClientPorts == {68}
MACs == {<<170, 187, 204, 221, 238, 255>>, <<2, 0, 0, 0, 0, 2>>}

VARIABLES
    \* DHCPServer
    siaddr,           \* d.siaddr
    hosts,            \* d.hosts: a function from the hardware addresses in the table
    \* observation of the server
    offered,          \* offered[mac]: the 'your IP' of the last Offer written for mac
    dret              \* the last HandleUDP call: its input, what it returned and wrote

dvars == <<siaddr, hosts, offered, dret>>

\* zero value of dhcpclient
ZeroList == [i \in 1..10 |-> 0]
ZeroClient == [addr |-> ZeroAddr, state |-> dhcpStateNone, port |-> 0, requestlist |-> ZeroList]

\* client := d.hosts[mac]
Lookup(h, mac) == IF mac \in DOMAIN h THEN h[mac] ELSE ZeroClient

\* d.hosts[mac] = client
Store(h, mac, client) == [m \in (DOMAIN h) \cup {mac} |-> IF m = mac THEN client ELSE h[m]]

\* An incoming payload: len and cap of the slice, the decoded fixed header, and
\* tail, the bytes from index parsePtr0 up to cap (those at index >= len are
\* what the packet's data array holds behind the payload).
Byte(p, i) == p.tail[i - parsePtr0 + 1]
Slice(p, lo, hi) == [k \in 1..(hi - lo) |-> Byte(p, lo + k - 1)]

\* client.requestlist = [10]byte{}; copy(client.requestlist[:], opt.Data)
CopyList(data) == [i \in 1..10 |-> IF i <= Len(data) THEN data[i] ELSE 0]

\* the option callback HandleUDP passes to parseDHCP
OnOption(tag, data, acc) ==
    IF tag = DHCP_MessageType
    THEN IF Len(data) = 1 THEN [acc EXCEPT !.msgType = data[1]] ELSE acc
    ELSE IF tag = DHCP_ParameterRequestList
    THEN [acc EXCEPT !.client.requestlist = CopyList(data)]
    ELSE IF tag = DHCP_RequestedIPaddress
    THEN IF Len(data) = 4 /\ acc.client.state = dhcpStateNone
         THEN [acc EXCEPT !.client.addr = AddrFrom4(data)]
         ELSE acc
    ELSE acc

\* the option loop of parseDHCP, from ptr on
RECURSIVE parseLoop(_, _, _)
parseLoop(p, ptr, acc) ==
    IF ptr + 1 < p.len /\ Byte(p, ptr + 1) < p.len
    THEN IF Byte(p, ptr) = EndMark
         THEN acc
         ELSE LET optlen == Byte(p, ptr + 1) IN
              IF ptr + 2 + optlen > p.cap
              THEN \* slice bounds out of range
                   [acc EXCEPT !.panic = TRUE]
              ELSE parseLoop(p, ptr + optlen + 2,
                       [OnOption(Byte(p, ptr), Slice(p, ptr + 2, ptr + 2 + optlen), acc)
                           EXCEPT !.visited = Append(@, <<Byte(p, ptr), ptr, optlen>>)])
    ELSE acc

\* func parseDHCP(incpayload []byte, fn func(opt dhcpOption) error) (eth.DHCPHeader, error)
parseDHCP(p, client) ==
    LET acc0 == [panic |-> FALSE, err |-> "nil", client |-> client, msgType |-> 0,
                 visited |-> <<>>]
    IN  IF p.len < SizeDHCPHeader
        THEN [acc0 EXCEPT !.err = "short payload to parse DHCP"]
        ELSE IF parsePtr0 >= p.len
        THEN [acc0 EXCEPT !.err = "short payload to parse DHCP options"]
        ELSE parseLoop(p, parsePtr0, acc0)

\* func (d *DHCPServer) next(requested [4]byte) [4]byte
next(requested) == IF requested # IP0 THEN requested ELSE FallbackIP

\* encodeDHCPOption(dst, opt): tag, length, data
encodeDHCPOption(opt) == <<opt.Opt, Len(opt.Data)>> \o opt.Data

RECURSIVE encodeAll(_)
encodeAll(opts) == IF opts = <<>> THEN <<>> ELSE encodeDHCPOption(Head(opts)) \o encodeAll(Tail(opts))

\* variant: only the server address is looked at, Discover gets no exception
Ignores_NoDiscoverException(msgType, hdrSIAddr, sia) == hdrSIAddr # sia.ip

\* msgType != 1 && rcvHdr.SIAddr != d.siaddr.As4()
Ignores(msgType, hdrSIAddr, sia) == msgType # 1 /\ hdrSIAddr # sia.ip

\* a response buffer nothing was written to
NoResp == [written |-> FALSE, YIAddr |-> IP0, SIAddr |-> IP0, cookie |-> 0, options |-> <<>>,
           headers |-> FALSE]

\* the headers of the packet before setResponseUDP touched them
NoPacketHdr == [set |-> FALSE, EthDestination |-> IP0, EthSource |-> IP0, IPSource |-> IP0,
                IPDestination |-> IP0, Protocol |-> 0, TTL |-> 0, IHL |-> 0, TotalLength |-> 0,
                ToS |-> 0, UDPDestinationPort |-> 0, UDPSourcePort |-> 0, UDPLength |-> 0]

\* func (d *DHCPServer) setResponseUDP(clientport uint16, packet *UDPPacket, payload []byte)
\* (IP.ID and the two checksums are left to the header codec)
setResponseUDP(clientport, payloadLen, sia) ==
    [set |-> TRUE, EthDestination |-> BroadcastHW6, EthSource |-> ServerMAC,
     IPSource |-> sia.ip, IPDestination |-> IP0, Protocol |-> 17, TTL |-> 64, IHL |-> 5,
     TotalLength |-> 4 * 5 + SizeUDPHeader + payloadLen, ToS |-> 192,
     UDPDestinationPort |-> clientport, UDPSourcePort |-> ServerPort,
     UDPLength |-> SizeUDPHeader + payloadLen]

\* variant: a Discover is answered whatever the state of the client
msgSwitch_Reoffers(msgType, client, hdr, srcPort, sia) ==
    LET r0 == [err |-> "nil", panic |-> FALSE, hdr |-> hdr, Options |-> <<>>, client |-> client]
    IN  IF msgType = 1
        THEN IF ~client.addr.valid
             THEN [r0 EXCEPT !.panic = TRUE]
             ELSE [r0 EXCEPT !.hdr.YIAddr = next(client.addr.ip),
                             !.Options = << [Opt |-> DHCP_MessageType, Data |-> <<2>>] >>,
                             !.hdr.SIAddr = sia.ip,
                             !.client.port = srcPort,
                             !.client.state = dhcpStateWaitOffer]
        ELSE IF msgType = 3
        THEN IF client.state # dhcpStateWaitOffer
             THEN [r0 EXCEPT !.err = "unexpected DHCP Request"]
             ELSE [r0 EXCEPT !.Options = << [Opt |-> DHCP_MessageType, Data |-> <<5>>] >>]
        ELSE r0

\* the switch on msgType of HandleUDP: the error it records, the header and
\* options of the response and the client record to store
msgSwitch(msgType, client, hdr, srcPort, sia) ==
    LET r0 == [err |-> "nil", panic |-> FALSE, hdr |-> hdr, Options |-> <<>>, client |-> client]
    IN  IF msgType = 1
        THEN IF client.state # dhcpStateNone
             THEN [r0 EXCEPT !.err = "DHCP Discover on initialized client"]
             ELSE IF ~client.addr.valid
             THEN \* client.addr.As4() on the zero netip.Addr panics
                  [r0 EXCEPT !.panic = TRUE]
             ELSE [r0 EXCEPT !.hdr.YIAddr = next(client.addr.ip),
                             !.Options = << [Opt |-> DHCP_MessageType, Data |-> <<2>>] >>,
                             !.hdr.SIAddr = sia.ip,
                             !.client.port = srcPort,
                             !.client.state = dhcpStateWaitOffer]
        ELSE IF msgType = 3
        THEN IF client.state # dhcpStateWaitOffer
             THEN [r0 EXCEPT !.err = "unexpected DHCP Request"]
             ELSE [r0 EXCEPT !.Options = << [Opt |-> DHCP_MessageType, Data |-> <<5>>] >>]
        ELSE r0

\* func (d *DHCPServer) HandleUDP(resp []byte, packet *UDPPacket) (_ int, err error)
\* in: respLen, respCap (the response buffer), hasPacket, mac (packet.Eth.Source),
\* srcPort (packet.UDP.SourcePort), payload (packet.Payload())
HandleUDPOut(h, sia, in) ==
    LET p == in.payload
        base == [n |-> 0, err |-> "nil", panic |-> FALSE, stage |-> "none", hosts |-> h,
                 resp |-> NoResp, packet |-> NoPacketHdr, msgType |-> 0, visited |-> <<>>]
    IN  IF in.respLen < sizeDHCPTotal
        THEN [base EXCEPT !.err = "short payload to marshall DHCP", !.stage = "short_resp"]
        ELSE IF in.hasPacket /\ p.len < SizeDHCPHeader
        THEN [base EXCEPT !.err = "short payload to parse DHCP", !.stage = "short_payload"]
        ELSE IF ~in.hasPacket
        THEN [base EXCEPT !.stage = "no_packet"]
        ELSE
        LET pr == parseDHCP(p, Lookup(h, in.mac))
            b1 == [base EXCEPT !.msgType = pr.msgType, !.visited = pr.visited]
        IN  IF pr.panic
            THEN [b1 EXCEPT !.panic = TRUE, !.stage = "parse_panic"]
            ELSE IF pr.err # "nil"
            THEN [b1 EXCEPT !.err = pr.err, !.stage = "parse_err"]
            ELSE IF Ignores(pr.msgType, p.hdr.SIAddr, sia)
            THEN [b1 EXCEPT !.stage = "ignored"]
            ELSE
            LET sw == msgSwitch(pr.msgType, pr.client, p.hdr, in.srcPort, sia) IN
                IF sw.panic
                THEN [b1 EXCEPT !.panic = TRUE, !.stage = "as4_panic"]
                ELSE IF sw.err # "nil"
                THEN \* return 0, nil
                     [b1 EXCEPT !.stage = "dropped"]
                ELSE
                LET written == [written |-> TRUE, YIAddr |-> sw.hdr.YIAddr,
                                SIAddr |-> sw.hdr.SIAddr, cookie |-> 1669485411,
                                options |-> encodeAll(sw.Options) \o <<EndMark>>,
                                headers |-> FALSE]
                    b2 == [b1 EXCEPT !.hosts = Store(h, in.mac, sw.client), !.resp = written]
                IN  IF dhcpOffset + sizeDHCPTotal > in.respCap
                    THEN \* resp[dhcpOffset : dhcpOffset+sizeDHCPTotal]: slice bounds out of range
                         [b2 EXCEPT !.panic = TRUE, !.stage = "slice_panic"]
                    ELSE [b2 EXCEPT !.packet = setResponseUDP(sw.client.port, sizeDHCPTotal, sia),
                                    !.resp.headers = TRUE,
                                    !.n = dhcpOffset + sizeDHCPTotal,
                                    !.stage = "responded"]

\* ---- the inputs HandleUDP is driven with
MsgTypeOpts == {<<>>, <<53, 1, 1>>, <<53, 1, 3>>, <<53, 1, 7>>}
ReqIPOpts == {<<>>, <<50, 4>> \o IP0, <<50, 4>> \o ClientIP}
PRLOpts == {<<>>, <<55, 2, 1, 3>>}
WellFormedTails ==
    {m \o r \o <<EndMark>> : m \in MsgTypeOpts, r \in ReqIPOpts}
    \cup {m \o q \o <<EndMark>> : m \in {<<53, 1, 1>>, <<53, 1, 3>>}, q \in PRLOpts}
Hdrs == {[SIAddr |-> ServerIP, YIAddr |-> IP0], [SIAddr |-> OtherServerIP, YIAddr |-> IP0],
         [SIAddr |-> ServerIP, YIAddr |-> StaleIP]}

MkPayload(len, cap, hdr, tail) == [len |-> len, cap |-> cap, hdr |-> hdr, tail |-> tail]
NilPayload == MkPayload(0, 0, [SIAddr |-> IP0, YIAddr |-> IP0], <<>>)

WellFormedPayloads ==
    {MkPayload(parsePtr0 + Len(t), parsePtr0 + Len(t), hd, t) : t \in WellFormedTails, hd \in Hdrs}

\* payloads that end before the options, and options cut short in the middle
\* (without and with an old byte of the data array behind the payload)
ShortPayloads ==
    {NilPayload, MkPayload(parsePtr0, parsePtr0, [SIAddr |-> ServerIP, YIAddr |-> IP0], <<>>),
     MkPayload(parsePtr0 + 2, parsePtr0 + 2, [SIAddr |-> ServerIP, YIAddr |-> IP0], <<53, 1>>),
     MkPayload(parsePtr0 + 2, parsePtr0 + 3, [SIAddr |-> ServerIP, YIAddr |-> IP0], <<53, 1, 1>>)}

Payloads == WellFormedPayloads \cup ShortPayloads

\* the payloads tried against response buffers that are too small
ProbePayloads ==
    {MkPayload(parsePtr0 + Len(t), parsePtr0 + Len(t), [SIAddr |-> ServerIP, YIAddr |-> IP0], t) :
        t \in {<<53, 1, 1>> \o <<50, 4>> \o ClientIP \o <<EndMark>>, <<53, 1, 3, 255>>}}

FullResp == dhcpOffset + sizeDHCPTotal
SmallRespBufs == {<<sizeDHCPTotal - 1, sizeDHCPTotal - 1>>, <<sizeDHCPTotal, sizeDHCPTotal>>,
                  <<sizeDHCPTotal, FullResp>>}

MkInput(rl, rc, hp, m, sp, pl) ==
    [respLen |-> rl, respCap |-> rc, hasPacket |-> hp, mac |-> m, srcPort |-> sp, payload |-> pl]

Inputs ==
    {MkInput(FullResp, FullResp, TRUE, m, sp, pl) : m \in MACs, sp \in ClientPorts, pl \in Payloads}
    \cup {MkInput(FullResp, FullResp, FALSE, m, sp, NilPayload) : m \in MACs, sp \in ClientPorts}
    \cup {MkInput(rb[1], rb[2], TRUE, m, sp, pl) :
             rb \in SmallRespBufs, m \in MACs, sp \in ClientPorts, pl \in ProbePayloads}

NoInput == [respLen |-> 0, respCap |-> 0, hasPacket |-> FALSE, mac |-> ServerMAC, srcPort |-> 0,
            payload |-> NilPayload]

\* the option bytes of an Offer and of an Ack, with the end mark
OfferOptions == <<DHCP_MessageType, 1, 2, EndMark>>
AckOptions == <<DHCP_MessageType, 1, 5, EndMark>>

HandleUDP ==
    \E in \in Inputs :
        LET out == HandleUDPOut(hosts, siaddr, in) IN
            /\ hosts' = out.hosts
            /\ dret' = [in |-> in, out |-> out, pre |-> hosts, preOffered |-> offered,
                        calls |-> 1]
            /\ offered' = IF out.resp.written /\ out.resp.options = OfferOptions
                           THEN Store(offered, in.mac, out.resp.YIAddr)
                           ELSE offered
            /\ UNCHANGED siaddr

\* func NewDHCPServer(port uint16, mac [6]byte, siaddr netip.Addr) *DHCPServer
DHCPInit ==
    /\ siaddr = AddrFrom4(ServerIP)
    /\ hosts = <<>>
    /\ dret = [in |-> NoInput, out |-> HandleUDPOut(<<>>, AddrFrom4(ServerIP), NoInput),
               pre |-> <<>>, preOffered |-> <<>>, calls |-> 0]
    /\ offered = <<>>

\* ============================================================== geometry
\* _MTU, the frame size the packet buffers are cut for
MTU == 1500
\* const tcpMTU = _MTU - eth.SizeEthernetHeader - eth.SizeIPv4Header - eth.SizeTCPHeader
tcpMTU == MTU - SizeEthernetHeader - SizeIPv4Header - SizeTCPHeader

\* IP total lengths are drawn from 0..MaxLowTotalLength and from a window of
\* HighSlack values on each side of tcpMTU + the two fixed headers
MaxLowTotalLength == 162
HighSlack == 44

VARIABLES
    geo               \* a TCPPacket's header fields and Rx, and the last view taken of it

gvars == <<geo>>

\* variant: the end of the payload is not checked against len(p.data)
dataPtrs_NoCapacityCheck(p) ==
    LET tcpOptStart == 4 * p.IHL - SizeIPv4Header
        payloadStart == tcpOptStart + 4 * p.Offset - SizeTCPHeader
        payloadEnd == p.TotalLength - tcpOptStart - SizeTCPHeader - SizeIPv4Header
    IN  IF payloadStart < 0 \/ payloadEnd < 0 \/ tcpOptStart < 0 \/ payloadStart > payloadEnd
           \/ tcpOptStart > payloadStart
        THEN <<-1, -1, -1>>
        ELSE <<payloadStart, payloadEnd, tcpOptStart>>

\* func (p *TCPPacket) dataPtrs() (payloadStart, payloadEnd, tcpOptStart int)
dataPtrs(p) ==
    LET tcpOptStart == 4 * p.IHL - SizeIPv4Header
        payloadStart == tcpOptStart + 4 * p.Offset - SizeTCPHeader
        payloadEnd == p.TotalLength - tcpOptStart - SizeTCPHeader - SizeIPv4Header
    IN  IF payloadStart < 0 \/ payloadEnd < 0 \/ tcpOptStart < 0 \/ payloadStart > payloadEnd
           \/ payloadEnd > tcpMTU \/ tcpOptStart > payloadStart
        THEN <<-1, -1, -1>>
        ELSE <<payloadStart, payloadEnd, tcpOptStart>>

\* a view p.data[lo:hi]; oob: the slice expression is out of range of p.data
NilSlice == [nil |-> TRUE, lo |-> 0, hi |-> 0, oob |-> FALSE]
DataSlice(lo, hi) == [nil |-> FALSE, lo |-> lo, hi |-> hi,
                      oob |-> ~(0 <= lo /\ lo <= hi /\ hi <= tcpMTU)]

\* func (p *TCPPacket) Payload() []byte
Payload(p) ==
    IF ~HasPacket(p.Rx) THEN NilSlice
    ELSE LET d == dataPtrs(p) IN
         IF d[1] < 0 THEN NilSlice ELSE DataSlice(d[1], d[2])

\* func (p *TCPPacket) TCPOptions() []byte
TCPOptions(p) ==
    IF ~HasPacket(p.Rx) THEN NilSlice
    ELSE LET d == dataPtrs(p) IN
         IF d[1] < 0 THEN NilSlice ELSE DataSlice(d[3], d[1])

\* func (p *TCPPacket) IPOptions() []byte
IPOptions(p) ==
    IF ~HasPacket(p.Rx) THEN NilSlice
    ELSE LET d == dataPtrs(p) IN
         IF d[3] < 0 THEN NilSlice ELSE DataSlice(0, d[3])

TotalLengths ==
    (0..MaxLowTotalLength)
    \cup ((tcpMTU + SizeIPv4Header + SizeTCPHeader - HighSlack)
              ..(tcpMTU + SizeIPv4Header + SizeTCPHeader + HighSlack))

NoPacket == [Rx |-> ZeroTime, IHL |-> 0, Offset |-> 0, TotalLength |-> 0]
NoGeo == [p |-> NoPacket, op |-> "none", ptrs |-> <<-1, -1, -1>>, res |-> NilSlice]

\* a frame decoded into the packet: any header values
GeomInit ==
    \E rx \in {ZeroTime, ForcedTime, ForcedTime + 1}, ihl \in 0..15, off \in 0..15,
       tl \in TotalLengths :
        geo = [NoGeo EXCEPT !.p = [Rx |-> rx, IHL |-> ihl, Offset |-> off, TotalLength |-> tl]]

PayloadCall ==
    geo' = [geo EXCEPT !.op = "Payload", !.ptrs = dataPtrs(geo.p), !.res = Payload(geo.p)]

TCPOptionsCall ==
    geo' = [geo EXCEPT !.op = "TCPOptions", !.ptrs = dataPtrs(geo.p), !.res = TCPOptions(geo.p)]

IPOptionsCall ==
    geo' = [geo EXCEPT !.op = "IPOptions", !.ptrs = dataPtrs(geo.p), !.res = IPOptions(geo.p)]

SockInit ==
    /\ Port = 0
    /\ handler = NilHandler
    /\ Rx = ZeroTime
    /\ pkt = 0
    /\ clock = 0
    /\ hcalls = [p \in 0..MaxPackets |-> 0]
    /\ handled = {}
    /\ redelivered = FALSE
    /\ marked = FALSE
    /\ markedOpen = FALSE
    /\ ret = NoRet

vars == <<svars, dvars, gvars>>

Init == SockInit /\ DHCPInit /\ geo = NoGeo

Next ==
    \/ HandleEth /\ UNCHANGED <<dvars, gvars>>
    \/ Open /\ UNCHANGED <<dvars, gvars>>
    \/ Close /\ UNCHANGED <<dvars, gvars>>
    \/ forceResponse /\ UNCHANGED <<dvars, gvars>>
    \/ RecvEth /\ UNCHANGED <<dvars, gvars>>

Spec == Init /\ [][Next]_vars

NextDHCP == HandleUDP /\ UNCHANGED <<svars, gvars>>

SpecDHCP == Init /\ [][NextDHCP]_vars

InitGeom == SockInit /\ DHCPInit /\ GeomInit

NextGeom ==
    \/ PayloadCall /\ UNCHANGED <<svars, dvars>>
    \/ TCPOptionsCall /\ UNCHANGED <<svars, dvars>>
    \/ IPOptionsCall /\ UNCHANGED <<svars, dvars>>

SpecGeom == InitGeom /\ [][NextGeom]_vars

\* ================================================================ claims
\* C1: the handler is invoked at most once for each real packet placed in the
\* slot; after any handler invocation (error or not) the slot's timestamp is
\* the zero sentinel, and a packet already handed to the handler never reaches
\* the handler or the session logic again in a later HandleEth.
C1_AtMostOncePerPacket ==
    /\ \A p \in 1..MaxPackets : hcalls[p] <= 1
    /\ ~redelivered
    /\ (ret.op = "HandleEth" /\ ret.hcount > 0) => Rx = ZeroTime

\* a real packet was handed to the handler, and a later HandleEth ran on the emptied slot
C1_Witness ==
    /\ pkt \in handled
    /\ ret.op = "HandleEth" /\ ret.preRx = ZeroTime /\ ret.hcount = 1

\* C2: with a real packet in the slot, HandleEth invokes the handler iff Recv
\* returned no error and a response segment is pending; a Recv error is returned
\* with 0 bytes and no handler call; no pending segment gives (0, nil) and no
\* handler call.
C2_HandlerIffSegmentReady ==
    (ret.op = "HandleEth" /\ HasPacket(ret.preRx)) =>
        /\ ret.hcount \in {0, 1}
        /\ (ret.hcount = 1) <=> (ret.recvCalled /\ ~ret.recvErr /\ ret.segOk)
        /\ ret.recvErr => (ret.n = 0 /\ ret.err = "recv_err" /\ ret.hcount = 0)
        /\ (ret.recvCalled /\ ~ret.recvErr /\ ~ret.segOk) =>
               (ret.n = 0 /\ ret.err = "nil" /\ ret.hcount = 0)

\* HandleEth ran on a real packet, Recv accepted it, no segment was ready
C2_Witness ==
    /\ ret.op = "HandleEth" /\ HasPacket(ret.preRx)
    /\ ret.recvCalled /\ ~ret.recvErr /\ ~ret.segOk /\ ret.hcount = 0

\* C3: HandleEth on an open socket whose slot holds a forced trigger invokes the
\* handler exactly once without consulting the session logic, and leaves the
\* socket Open-Empty whatever the handler returned.
C3_ForcedDispatch ==
    (ret.op = "HandleEth" /\ ret.prePort # 0 /\ ret.preRx = ForcedTime) =>
        /\ ~ret.panic
        /\ ret.hcount = 1
        /\ ~ret.recvCalled
        /\ Port # 0 /\ Rx = ZeroTime
        /\ ~IsPendingHandling

\* HandleEth ran on a forced trigger and the handler returned an error
C3_Witness ==
    /\ ret.op = "HandleEth" /\ ret.prePort # 0 /\ ret.preRx = ForcedTime
    /\ ret.err = "handler_err"

\* C4 as stated: a socket just opened is not pending, and once forceResponse
\* has returned true on the open socket every further forceResponse before the
\* next HandleEth returns false.
C4_Original ==
    /\ (ret.op = "Open" /\ ~ret.panic) => ~IsPendingHandling
    /\ (ret.op = "forceResponse" /\ ret.preMarked) => ~ret.added

\* C4 amended: a socket just opened is not pending, and once forceResponse has
\* returned true on the open socket every further forceResponse before the
\* next HandleEth, Open or Close returns false.
C4_SecondMarkRejected ==
    /\ (ret.op = "Open" /\ ~ret.panic) => ~IsPendingHandling
    /\ (ret.op = "forceResponse" /\ ret.preMarkedOpen) => ~ret.added

\* a second forceResponse was made on an open socket holding a forced trigger
C4_Witness ==
    /\ ret.op = "forceResponse" /\ ret.preMarkedOpen /\ ret.prePort # 0
    /\ ret.preRx = ForcedTime /\ ~ret.added
\* ----------------------------------------------------------- DHCP claims
\* the last call was a HandleUDP on a received, well-formed message with a
\* response buffer that holds the whole response
WellFormedCall ==
    /\ dret.calls = 1
    /\ dret.in.hasPacket
    /\ dret.in.payload \in WellFormedPayloads
    /\ dret.in.respLen >= FullResp

\* the Message-Type option the message carries (0: none)
InMsgType ==
    LET t == dret.in.payload.tail IN
        IF Len(t) >= 3 /\ t[1] = DHCP_MessageType /\ t[2] = 1 THEN t[3] ELSE 0

\* the Requested-IP-Address option the message carries, or "none"
InRequestedIP ==
    LET t == dret.in.payload.tail
        at(i) == Len(t) >= i + 5 /\ t[i] = DHCP_RequestedIPaddress /\ t[i + 1] = 4
    IN  IF at(1) THEN <<t[3], t[4], t[5], t[6]>>
        ELSE IF at(4) THEN <<t[6], t[7], t[8], t[9]>>
        ELSE IP0

PreClient == Lookup(dret.pre, dret.in.mac)
PostClient == Lookup(hosts, dret.in.mac)

EmitsOffer ==
    /\ ~dret.out.panic /\ dret.out.err = "nil" /\ dret.out.n = FullResp
    /\ dret.out.resp.written /\ dret.out.resp.options = OfferOptions

EmitsAck ==
    /\ ~dret.out.panic /\ dret.out.err = "nil" /\ dret.out.n = FullResp
    /\ dret.out.resp.written /\ dret.out.resp.options = AckOptions

\* C5: a Discover from a fresh hardware address moves its record from None to
\* WaitingForOffer and is answered with an Offer (type 2); the Request that
\* follows, addressed to this server, is answered with an Ack (type 5); a
\* Request from an address that sent no Discover gives 0 bytes, no error and
\* no fatal failure.
C5_DiscoverOfferRequestAck ==
    WellFormedCall =>
        /\ (InMsgType = 1 /\ dret.in.mac \notin DOMAIN dret.pre) =>
               (EmitsOffer /\ PostClient.state = dhcpStateWaitOffer)
        /\ (InMsgType = 3 /\ dret.in.payload.hdr.SIAddr = ServerIP
               /\ PreClient.state = dhcpStateWaitOffer) => EmitsAck
        /\ (InMsgType = 3 /\ dret.in.mac \notin DOMAIN dret.pre) =>
               (dret.out.n = 0 /\ dret.out.err = "nil" /\ ~dret.out.panic)

\* C6: a Discover from a client in state None with no (or a zero)
\* Requested-IP-Address option is answered with an Offer whose 'your IP' is
\* 192.168.1.2 and whose 'server IP' is the server's address; with a non-zero
\* requested address the Offer carries that address; no fatal failure either way.
C6_OfferAddress ==
    (WellFormedCall /\ InMsgType = 1 /\ dret.in.mac \notin DOMAIN dret.pre) =>
        /\ ~dret.out.panic
        /\ EmitsOffer
        /\ dret.out.resp.SIAddr = ServerIP
        /\ dret.out.resp.YIAddr = (IF InRequestedIP = IP0 THEN FallbackIP ELSE InRequestedIP)

\* C7: the Ack for a Request from a client in WaitingForOffer carries in 'your
\* IP' the address the server assigned to that client in the preceding Offer,
\* whatever the header of the Request holds.
C7_AckEchoesAssigned ==
    (WellFormedCall /\ InMsgType = 3 /\ PreClient.state = dhcpStateWaitOffer
        /\ dret.in.mac \in DOMAIN dret.preOffered /\ EmitsAck) =>
        dret.out.resp.YIAddr = dret.preOffered[dret.in.mac]

\* C8: a received message that is neither a Discover for a client in None nor a
\* Request for a client in WaitingForOffer (other message types and no
\* Message-Type option included) gives 0 bytes and no error, writes nothing to
\* the response buffer and leaves the lease table as it was.
C8_OtherMessagesDropped ==
    (WellFormedCall
        /\ ~(InMsgType = 1 /\ PreClient.state = dhcpStateNone)
        /\ ~(InMsgType = 3 /\ PreClient.state = dhcpStateWaitOffer)) =>
        /\ dret.out.n = 0 /\ dret.out.err = "nil" /\ ~dret.out.panic
        /\ ~dret.out.resp.written
        /\ hosts = dret.pre

\* the last call parsed a received message without error
ParsedCall ==
    /\ dret.calls = 1
    /\ dret.in.hasPacket
    /\ dret.out.stage \notin {"short_resp", "short_payload", "no_packet", "parse_err", "parse_panic"}

\* C9: a message that parses without error is processed iff its message type is
\* Discover or the server address of its header is the server's own; every
\* other message is ignored: (0, nil) is returned and the client's record in
\* the lease table (and the table) is as before.
C9_IgnoredIffForOtherServer ==
    ParsedCall =>
        /\ (dret.out.stage # "ignored") <=>
               (dret.out.msgType = 1 \/ dret.in.payload.hdr.SIAddr = siaddr.ip)
        /\ (dret.out.stage = "ignored") =>
               /\ dret.out.n = 0 /\ dret.out.err = "nil" /\ ~dret.out.panic
               /\ ~dret.out.resp.written
               /\ hosts = dret.pre
               /\ PostClient = PreClient

\* a Request with a parameter request list, addressed to another server, came
\* from a client in WaitingForOffer and was ignored
C9_Witness ==
    /\ ParsedCall /\ dret.out.stage = "ignored"
    /\ dret.in.payload.tail = <<53, 1, 3, 55, 2, 1, 3, 255>>
    /\ dret.in.payload.hdr.SIAddr = OtherServerIP
    /\ dret.in.mac \in DOMAIN dret.pre /\ PreClient.state = dhcpStateWaitOffer
\* ------------------------------------------------------- geometry claims
\* C10: for every (IHL, data offset, total length) dataPtrs returns either
\* offsets with 0 <= tcpOptStart <= payloadStart <= payloadEnd <= len(data) or
\* -1 for all three, never a mix; Payload, TCPOptions and IPOptions never
\* slice outside the data region.
C10_GeometryInBounds ==
    (geo.op # "none") =>
        /\ \/ geo.ptrs = <<-1, -1, -1>>
           \/ /\ 0 <= geo.ptrs[3] /\ geo.ptrs[3] <= geo.ptrs[1]
              /\ geo.ptrs[1] <= geo.ptrs[2] /\ geo.ptrs[2] <= tcpMTU
        /\ ~geo.res.oob
        /\ ~geo.res.nil => (0 <= geo.res.lo /\ geo.res.lo <= geo.res.hi /\ geo.res.hi <= tcpMTU)

\* a packet with IP and TCP options whose payload ends exactly at the end of the data region
C10_Witness ==
    /\ geo.op = "Payload" /\ ~geo.res.nil
    /\ geo.p.IHL > 5 /\ geo.p.Offset > 5
    /\ geo.res.lo < geo.res.hi /\ geo.res.hi = tcpMTU
\* ------------------------------------------------- socket claims, continued
\* C14: Close from any state gives port 0 and a nil handler and leaves the slot
\* as it was; an Open with port # 0 and a handler gives Open-Empty whatever was
\* in the slot (also a packet or trigger left by a Close); an Open with port 0
\* or a nil handler fails fatally and changes neither port, handler nor slot.
C14_CloseThenOpen ==
    /\ (ret.op = "Close") =>
           (Port = 0 /\ handler = NilHandler /\ Rx = ret.preRx /\ pkt = ret.prePkt)
    /\ (ret.op = "Open" /\ ~ret.panic) =>
           (Port # 0 /\ handler # NilHandler /\ Rx = ZeroTime /\ ~IsPendingHandling)
    /\ (ret.op = "Open" /\ ret.panic) =>
           (Port = ret.prePort /\ handler = ret.preHandler /\ Rx = ret.preRx
               /\ pkt = ret.prePkt)

\* a closed socket whose slot still held a real packet was opened
C14_Witness ==
    /\ ret.op = "Open" /\ ~ret.panic
    /\ ret.prePort = 0 /\ ret.preHandler = NilHandler /\ HasPacket(ret.preRx)

\* C16: forceResponse on an Open-Empty socket sets the slot's timestamp to the
\* forced sentinel and returns true; on an Open-Pending socket (real packet or
\* forced trigger) it returns false and leaves the timestamp as it was, so a
\* pending real packet stays a real packet.
C16_ForceResponseFrame ==
    (ret.op = "forceResponse" /\ ret.prePort # 0) =>
        /\ (ret.preRx = ZeroTime) => (ret.added /\ Rx = ForcedTime)
        /\ (ret.preRx # ZeroTime) => (~ret.added /\ Rx = ret.preRx)
        /\ (ret.preRx \notin {ZeroTime, ForcedTime}) => (Rx \notin {ZeroTime, ForcedTime})
        /\ Port = ret.prePort /\ handler = ret.preHandler /\ pkt = ret.prePkt

\* forceResponse was refused on an open socket holding a real packet
C16_Witness ==
    /\ ret.op = "forceResponse" /\ ret.prePort # 0
    /\ ret.preRx \notin {ZeroTime, ForcedTime} /\ ~ret.added

\* C17: the handler is non-nil whenever the port is non-zero, in every state
\* (fatal failures included), and HandleEth fails fatally on a nil handler
\* exactly when the socket is closed.
C17_HandlerSetWhileOpen ==
    /\ (Port # 0) => (handler # NilHandler)
    /\ (ret.op = "HandleEth") => (ret.panic <=> ret.prePort = 0)

\* HandleEth failed fatally on a socket that had been opened, used and closed
C17_Witness ==
    /\ ret.op = "HandleEth" /\ ret.panic /\ ret.prePort = 0
    /\ ret.preRx # ZeroTime

\* C18: every HandleEth that returns on an open socket, with or without an
\* error, leaves the socket Open-Empty (IsPendingHandling and NeedsHandling
\* false).
C18_DispatchAlwaysDrains ==
    (ret.op = "HandleEth" /\ ~ret.panic /\ ret.prePort # 0) =>
        (Port # 0 /\ Rx = ZeroTime /\ ~IsPendingHandling /\ ~NeedsHandling)
\* --------------------------------------------------- DHCP claims, continued
\* the last call handed a received payload to parseDHCP
ParseReached ==
    /\ dret.calls = 1
    /\ dret.in.hasPacket
    /\ dret.in.respLen >= sizeDHCPTotal
    /\ dret.in.payload.len >= SizeDHCPHeader

\* C11: parseDHCP either returns an error or visits only options whose tag,
\* length and data bytes all lie inside the buffer; it stops at tag 0xFF, and
\* at an option whose length byte or data would pass the end of the buffer it
\* stops without visiting it and without a fatal failure.
C11_ParseStaysInBuffer ==
    ParseReached =>
        /\ dret.out.stage # "parse_panic"
        /\ \A i \in 1..Len(dret.out.visited) :
               LET v == dret.out.visited[i] IN
                   /\ v[1] # EndMark
                   /\ v[2] + 2 + v[3] <= dret.in.payload.len

\* C12: with a response buffer too small for the whole response (the three
\* headers and the DHCP block) HandleUDP returns an error or writes nothing,
\* never fails fatally, and never reports more bytes than the buffer holds.
C12_SmallResponseBuffer ==
    (dret.calls = 1 /\ dret.in.respLen < FullResp) =>
        /\ ~dret.out.panic
        /\ (dret.out.err # "nil" \/ ~dret.out.resp.written)
        /\ dret.out.n <= dret.in.respLen

\* C13: a HandleUDP call never removes a record from the lease table, and it
\* adds one only for a Discover from a hardware address not yet in the table.
C13_TableGrowsOnDiscoverOnly ==
    (dret.calls = 1) =>
        /\ DOMAIN dret.pre \subseteq DOMAIN hosts
        /\ (DOMAIN hosts # DOMAIN dret.pre) =>
               /\ dret.out.msgType = 1
               /\ dret.in.mac \notin DOMAIN dret.pre
               /\ DOMAIN hosts = DOMAIN dret.pre \cup {dret.in.mac}

\* C19: a record in WaitingForOffer never returns to None; a later Discover
\* from that address is dropped with (0, nil) and no Offer, and a later
\* Request addressed to this server is answered with an Ack.
C19_StateMonotone ==
    (dret.calls = 1) =>
        /\ \A m \in DOMAIN dret.pre :
               (dret.pre[m].state = dhcpStateWaitOffer) =>
                   (m \in DOMAIN hosts /\ hosts[m].state = dhcpStateWaitOffer)
        /\ (WellFormedCall /\ InMsgType = 1 /\ PreClient.state = dhcpStateWaitOffer) =>
               /\ dret.out.n = 0 /\ dret.out.err = "nil" /\ ~dret.out.panic
               /\ ~dret.out.resp.written
               /\ offered = dret.preOffered
        /\ (WellFormedCall /\ InMsgType = 3 /\ dret.in.payload.hdr.SIAddr = siaddr.ip
               /\ PreClient.state = dhcpStateWaitOffer) =>
               (EmitsAck /\ PostClient.state = dhcpStateWaitOffer)

\* a Discover with a requested address came again from a client in
\* WaitingForOffer and was dropped
C19_Witness ==
    /\ WellFormedCall /\ InMsgType = 1 /\ InRequestedIP = ClientIP
    /\ dret.in.mac \in DOMAIN dret.pre /\ PreClient.state = dhcpStateWaitOffer
    /\ dret.out.stage = "dropped"

\* ----------------------------------------------- geometry claims, continued
\* C15: Payload, TCPOptions and IPOptions return nil whenever the slot's
\* timestamp is the zero or the forced sentinel, whatever the header fields.
C15_NilWithoutPacket ==
    (geo.op # "none" /\ geo.p.Rx \in {ZeroTime, ForcedTime}) => geo.res.nil

\* a view was asked of a forced slot whose headers describe a valid, non-empty payload
C15_Witness ==
    /\ geo.op \in {"Payload", "TCPOptions", "IPOptions"}
    /\ geo.p.Rx = ForcedTime
    /\ geo.ptrs[1] >= 0 /\ geo.ptrs[3] > 0 /\ geo.ptrs[1] < geo.ptrs[2]
    /\ geo.res.nil

\* C20: for a real packet with valid geometry the payload is total length
\* minus 4*IHL minus the TCP header length bytes long, and IPOptions,
\* TCPOptions and Payload are adjacent slices of the data region in that
\* order, also when IHL > 5.
C20_PayloadLength ==
    (geo.op # "none" /\ HasPacket(geo.p.Rx) /\ geo.ptrs[1] >= 0) =>
        /\ Payload(geo.p).hi - Payload(geo.p).lo
               = geo.p.TotalLength - 4 * geo.p.IHL - 4 * geo.p.Offset
        /\ IPOptions(geo.p).lo = 0
        /\ IPOptions(geo.p).hi = TCPOptions(geo.p).lo
        /\ TCPOptions(geo.p).hi = Payload(geo.p).lo
====
